---- MODULE Spec2Model ----
(***************************************************************************)
(* CI/CD pipeline workflow of workshop-cicd-k8s-deployment.                *)
(*                                                                         *)
(* One pipeline execution of workflows.CICDPipelineWorkflow, the signals   *)
(* sent to it by cmd/starter, the retry policy of its activity calls, and  *)
(* the timer / validation-signal selector of deployToProduction.           *)
(***************************************************************************)
EXTENDS Integers, Sequences, FiniteSets, TLC

\* ------------------------------------------------------------------ bounds
\* How many approval / validation signals clients send to one pipeline.
MaxApprovalSignals == 2
MaxValidationSignals == 2
MaxEmptyPolls == 2
MaxSeconds == 2
MaxPipelines == 3

\* --------------------------------------------------------------- constants
\* Mutation: the retry policy allows one attempt fewer.
MaximumAttemptsOneLess == 5 - 1

\* RetryPolicy.MaximumAttempts of the workflow's ActivityOptions.
MaximumAttempts == 5

\* -env flag values: the two documented ones and an unrecognized one.
Environments == {"staging", "production", "prod", "stage", ""}
\* -registry flag values.
Registries == {"", "registry.local"}
\* -action, -approver and -reason flag values of the approve and reject
\* invocations ("" is the flag's default).
ApprovalInvocations ==
  {<<"approve", "", "">>, <<"approve", "qa", "looks good">>,
   <<"reject", "", "">>, <<"reject", "qa", "perf regression">>}
\* Combined output of `go test` reported by TestDockerContainer.
\* -action, -approver, -reason of the control invocations of cmd/starter
StarterInvocations ==
  ApprovalInvocations \cup {<<"validate", "qa", "monitoring ok">>}

TestOutputs == {"PASS", "FAIL"}
\* The responses of the test call: the workflow reads the output of a failed
\* test only, so one output stands for those of a passed one.
TestResponses ==
  {resp \in [Passed : BOOLEAN, Output : TestOutputs] :
     resp.Passed => resp.Output = "PASS"}

\* The logical activity calls of one pipeline, named by activity (and target).
BuildCall == "BuildDockerImage"
TestCall == "TestDockerContainer"
PushCall == "PushToRegistry"
StagingCall == "DeployToKubernetes(staging)"
NotifyCall == "SendApprovalRequest"
LogCall == "LogApprovalDecision"
ProductionCall == "DeployToKubernetes(production)"
RollbackCall == "RollbackDeployment"

\* Task queues and registrations of the starter and the three workers.
StarterTaskQueue == "cicd-task-queue"
GoWorkerTaskQueue == "cicd-task-queue-go"
TypeScriptWorkerTaskQueue == "cicd-task-queue-typescript"
PythonWorkerTaskQueue == "cicd-task-queue"
GoWorkerRegisters ==
  {"CICDPipelineWorkflow", "BuildDockerImage", "TestDockerContainer", "PushToRegistry"}
TypeScriptWorkerRegisters ==
  {"SendApprovalRequest", "LogApprovalDecision", "SendApprovalNotification"}
PythonWorkerRegisters == {"DeployToKubernetes", "RollbackDeployment"}

Workers == {"go", "typescript", "python"}
WorkerTaskQueue(w) ==
  CASE w = "go" -> GoWorkerTaskQueue
    [] w = "typescript" -> TypeScriptWorkerTaskQueue
    [] w = "python" -> PythonWorkerTaskQueue
Registers(w) ==
  CASE w = "go" -> GoWorkerRegisters
    [] w = "typescript" -> TypeScriptWorkerRegisters
    [] w = "python" -> PythonWorkerRegisters

Calls ==
  {BuildCall, TestCall, PushCall, StagingCall, NotifyCall, LogCall,
   ProductionCall, RollbackCall}

VARIABLES
  request,            \* shared.PipelineRequest the workflow was started with
  pc,                 \* where the workflow is suspended: "start", a call, a wait, "done"
  attempt,            \* attempts started of the call issued last (0 = none yet)
  callStatus,         \* per call: "none", "scheduled", "ok", "failed"
  callLog,            \* the calls in the order the workflow issued them
  imageTag,           \* per call: the ImageTag field of the request it was issued with
  lastSuccess,        \* Success field of the deploy or rollback response filled last
  testResp,           \* shared.DockerTestResponse of the test call
  fullImagePath,      \* artifact reference built after the push
  approvalChannel,    \* buffered signals of channel "approval"
  validationChannel,  \* buffered signals of channel "validation"
  approvalSignal,     \* the received shared.ApprovalSignal
  approvalWait,       \* "none", "waiting", "received": approvalChannel.Receive
  timer,              \* "none", "armed", "fired": workflow.NewTimer(30s)
  readyBranch,        \* selector branch made ready: "none", "validation", "timer"
  timerExpired,       \* local of deployToProduction
  validationReceived, \* local of deployToProduction
  validation,         \* the shared.ValidationSignal the validation branch received
  result,             \* the workflow's execution status and returned error
  approvalsSent,      \* approval signals delivered so far
  validationsSent,    \* validation signals delivered so far
  validationInTime,   \* a validation signal was delivered before the timer fired
  raceWinner,         \* first of {validation, timer} that happened for the selector
  lateLoser,          \* the other event happened after the race was decided
  emptyPolls,         \* per worker: polls of its task queue that returned no task
  validateInvoked,    \* cmd/starter was run with -action=validate
  validateInWindow,   \* ... while the selector was waiting for validation or timer
  now,                \* time.Now().Unix(), counted from the first creation
  workflowIDs,        \* the workflow IDs of the pipeline creations, in order
  kubectl             \* the latest execution of the Go DeployToKubernetes activity

wfVars ==
  <<request, pc, attempt, callStatus, callLog, imageTag, lastSuccess, testResp,
    fullImagePath, approvalSignal, approvalWait, timerExpired, validationReceived, result>>
sigVars == <<approvalChannel, validationChannel, approvalsSent, validationsSent>>
raceVars == <<timer, readyBranch, validation, validationInTime, raceWinner, lateLoser>>
pipelineVars == <<wfVars, sigVars, raceVars>>
idVars == <<now, workflowIDs>>
kubeVars == <<kubectl>>
dispVars == <<emptyPolls, validateInvoked, validateInWindow, idVars, kubeVars>>
vars == <<pipelineVars, dispVars>>

\* ------------------------------------------------------------------ values
ZeroApprovalSignal == [Approved |-> FALSE, Approver |-> "", Reason |-> ""]
ZeroTestResponse == [Passed |-> FALSE, Output |-> ""]
ZeroValidationSignal == [Validated |-> FALSE, Validator |-> "", Reason |-> ""]

ValidationSignals ==
  [Validated : BOOLEAN, Validator : {"qa"}, Reason : {"monitoring ok"}]

Running == [status |-> "Running", error |-> <<>>, cause |-> ""]
\* return nil
NilResult == [status |-> "Completed", error |-> <<>>, cause |-> ""]
\* err.Error() of a failed activity call
ActivityError(call) == <<"activity error", call>>
\* fmt.Errorf("<prefix>: %w", err) with err the error of `call`
ErrorfW(prefix, call) ==
  [status |-> "Failed", error |-> <<prefix>> \o ActivityError(call), cause |-> call]
\* fmt.Errorf("<prefix>: %s ...", args...)
ErrorfS(prefix, args) ==
  [status |-> "Failed", error |-> <<prefix>> \o args, cause |-> ""]

\* shared.FormatImageTag, the string as the list of its parts
FormatImageTag(registry, image, tag) ==
  IF registry = "" THEN <<image, ":", tag>> ELSE <<registry, "/", image, ":", tag>>

ConstructFullImagePathRegistryDropped(registry, image, tag) == <<image, ":", tag>>

\* "Construct full image path with registry" of the workflow
ConstructFullImagePath(registry, image, tag) ==
  IF registry # "" THEN <<registry, "/", image, ":", tag>> ELSE <<image, ":", tag>>

\* rand.Intn(9999) draws from 0..9998
RandIntnLimit == 9999
Randoms == {0, 1, RandIntnLimit - 1}

\* "%04d" of a number below 10000: its four decimal digits
Pad4(n) == <<n \div 1000, (n \div 100) % 10, (n \div 10) % 10, n % 10>>

\* shared.GenerateWorkflowID with the two values it reads: the clock's second
\* and the random number; fmt.Sprintf("%s-%d-%04d", ...) as the list of parts
GenerateWorkflowID(prefix, timestamp, random) ==
  <<prefix, "-", timestamp, "-">> \o Pad4(random)

\* ------------------------------------ the Go DeployToKubernetes activity
\* What the cluster answers to the kubectl commands of one execution, for
\* each command the activity may run: kubectl set image (ok, an error whose
\* stderr contains "not found", another error), the kubectl apply of the
\* deployment, kubectl rollout status --timeout=30s, kubectl get service and
\* the kubectl apply of the service.
Clusters ==
  [setImage : {"ok", "not found", "error"},
   applyDeployment : {"ok", "error"},
   rolloutStatus : {"ok", "error"},
   getService : {"ok", "error"},
   applyService : {"ok", "error"}]

\* No execution yet.
NotExecuted == [commands |-> <<>>, Success |-> FALSE, err |-> FALSE, error |-> <<>>]

\* createDeployment: the manifest is applied, a failure is the error.
createDeployment(cluster) ==
  [commands |-> << <<"apply deployment", cluster.applyDeployment>> >>,
   err |-> cluster.applyDeployment # "ok"]

\* ensureService: nothing to do when the service exists, else it is applied.
ensureService(cluster) ==
  IF cluster.getService = "ok"
    THEN [commands |-> << <<"get service", "ok">> >>, err |-> FALSE]
    ELSE [commands |-> << <<"get service", cluster.getService>>,
                          <<"apply service", cluster.applyService>> >>,
          err |-> cluster.applyService # "ok"]

\* Mutation: a rollout that failed or timed out is returned as an error.
DeployToKubernetesRolloutChecked(cluster) ==
  LET update == << <<"set image", cluster.setImage>> >>
      created == createDeployment(cluster)
      rollout == << <<"rollout status", cluster.rolloutStatus>> >>
      service == ensureService(cluster)
      Failed(cmds, msg) ==
        [commands |-> cmds, Success |-> FALSE, err |-> TRUE, error |-> msg]
      Rollout(cmds) ==
        IF cluster.rolloutStatus # "ok"
          THEN Failed(cmds \o rollout, <<"rollout failed">>)
          ELSE IF service.err
            THEN Failed(cmds \o rollout \o service.commands,
                        <<"failed to ensure service: ", "%w">>)
            ELSE [commands |-> cmds \o rollout \o service.commands,
                  Success |-> TRUE, err |-> FALSE, error |-> <<>>]
  IN  IF cluster.setImage = "ok"
        THEN Rollout(update)
        ELSE IF cluster.setImage = "not found"
          THEN IF created.err
                 THEN Failed(update \o created.commands,
                             <<"failed to create deployment: ", "%w">>)
                 ELSE Rollout(update \o created.commands)
          ELSE Failed(update, <<"failed to update deployment: ", "%s">>)

\* DeployToKubernetes: the commands it runs, in order and with their outcome,
\* and what it returns. The pod status and pod logs fetched after a failed
\* rollout are only logged; getActualServiceURL returns no error on any path
\* (its fallbacks return default URLs), so step 4 never fails and the URL is
\* left out of the response, the workflow only logging it.
DeployToKubernetes(cluster) ==
  LET update == << <<"set image", cluster.setImage>> >>
      created == createDeployment(cluster)
      rollout == << <<"rollout status", cluster.rolloutStatus>> >>
      service == ensureService(cluster)
      Failed(cmds, msg) ==
        [commands |-> cmds, Success |-> FALSE, err |-> TRUE, error |-> msg]
      Rollout(cmds) ==
        IF service.err
          THEN Failed(cmds \o rollout \o service.commands,
                      <<"failed to ensure service: ", "%w">>)
          ELSE [commands |-> cmds \o rollout \o service.commands,
                Success |-> TRUE, err |-> FALSE, error |-> <<>>]
  IN  IF cluster.setImage = "ok"
        THEN Rollout(update)
        ELSE IF cluster.setImage = "not found"
          THEN IF created.err
                 THEN Failed(update \o created.commands,
                             <<"failed to create deployment: ", "%w">>)
                 ELSE Rollout(update \o created.commands)
          ELSE Failed(update, <<"failed to update deployment: ", "%s">>)


\* ------------------------------------------------------------ initial state
\* startPipeline: the request is built from the flags and the workflow started.
StartedPipeline ==
  /\ request \in [ImageName : {"demo-app"}, Tag : {"v1.0.0"},
                  RegistryURL : Registries, Environment : Environments]
  /\ pc = "start"
  /\ attempt = 0
  /\ callStatus = [c \in Calls |-> "none"]
  /\ callLog = <<>>
  /\ imageTag = [c \in Calls |-> <<>>]
  /\ lastSuccess = FALSE
  /\ testResp = ZeroTestResponse
  /\ fullImagePath = <<>>
  /\ approvalChannel = <<>>
  /\ validationChannel = <<>>
  /\ approvalSignal = ZeroApprovalSignal
  /\ approvalWait = "none"
  /\ timer = "none"
  /\ readyBranch = "none"
  /\ timerExpired = FALSE
  /\ validationReceived = FALSE
  /\ validation = ZeroValidationSignal
  /\ result = Running
  /\ approvalsSent = 0
  /\ validationsSent = 0
  /\ validationInTime = FALSE
  /\ raceWinner = "none"
  /\ lateLoser = FALSE
  /\ emptyPolls = [w \in Workers |-> 0]
  /\ validateInvoked = FALSE
  /\ validateInWindow = FALSE
  /\ kubectl = NotExecuted

\* The pipeline's behaviour does not depend on its identifier: one stands for it.
Init ==
  /\ StartedPipeline
  /\ now = 0
  /\ workflowIDs = <<GenerateWorkflowID("pipeline", 0, 0)>>

\* ------------------------------------------------- decisions of the workflow
\* RetryPolicy: a failed attempt is retried while attempts remain.
RetryAllowed(n) == n < MaximumAttempts

\* ExecuteActivity(...).Get: the call returns success after any attempt, and
\* an error only when the last allowed attempt has failed.
CallReturns(call, err) ==
  /\ pc = call
  /\ err => ~RetryAllowed(attempt)

\* Mutation: the Passed flag of the test response is not looked at.
TestsPassedIgnored(resp) == TRUE

\* if !testResp.Passed
TestsPassed(resp) == resp.Passed

\* if request.Environment == "staging" || request.Environment == "production"
\* Mutation: the environment is classified with shared.IsStagingEnvironment
\* and shared.IsProductionEnvironment.
DeploysToStagingByHelpers(env) == env \in {"staging", "stage", "production", "prod"}

DeploysToStaging(env) == env = "staging" \/ env = "production"

\* Mutation: every deployed request takes the production path.
NeedsProductionNever(env) == FALSE
NeedsProductionAnyDeploy(env) == env = "staging" \/ env = "production"

\* if request.Environment == "production"
NeedsProduction(env) == env = "production"

\* Mutation: the decision is not looked at.
IsApprovedAlways(signal) == TRUE
\* Mutation: the decision is read the wrong way round.
IsApprovedInverted(signal) == ~signal.Approved

\* if !approvalSignal.Approved
IsApproved(signal) == signal.Approved

\* Mutation: the negation of validationReceived is dropped.
ShouldRollbackUnlessValidated(expired, received) ==
  \/ expired /\ ~received
  \/ received /\ ~(IF pc = "Select" THEN validation ELSE Head(validationChannel)).Validated
ShouldRollbackNegationDropped(expired, received) == expired /\ received
\* Mutation: the rollback runs whatever the selector did.
ShouldRollbackAlways(expired, received) == TRUE

\* if timerExpired && !validationReceived
ShouldRollback(expired, received) == expired /\ ~received

\* Mutation: the branch that became ready last is the one run.
SelectBranchValidationFirst(ready, branch) ==
  IF branch = "validation" \/ ready = "none" THEN branch ELSE ready
SelectBranchLastWins(ready, branch) == branch

\* selector.Select: the first branch that becomes ready is the one run; a
\* branch becoming ready later finds the selector already decided.
SelectBranch(ready, branch) == IF ready = "none" THEN branch ELSE ready

\* Mutation: a failed rollback is returned as a failed production deploy.
RollbackFailedAsProduction == "production deployment failed"

\* The error prefixes of the workflow's return statements.
BuildFailed == "docker build failed"
TestsFailed == "docker tests failed"
PushFailed == "docker push failed"
StagingFailed == "staging deployment failed"
NotifyFailed == "failed to send approval request"
Rejected == "production deployment rejected by"
ProductionFailed == "production deployment failed"
RollbackFailed == "rollback failed"

\* ---------------------------------------------------------------- plumbing
Done(call, err) == [callStatus EXCEPT ![call] = IF err THEN "failed" ELSE "ok"]

\* The ImageTag field of the request a call is issued with: the deploy
\* requests and the approval request carry fullImagePath, the staging one
\* right after it was constructed; the other requests have no such field.
ImageTagPassed(next) ==
  CASE next = StagingCall -> fullImagePath'
    [] next \in {NotifyCall, ProductionCall} -> fullImagePath
    [] OTHER -> <<>>

\* workflow.ExecuteActivity(ctx, next, ...): the workflow suspends on the call.
Schedule(status, next) ==
  /\ callStatus' = [status EXCEPT ![next] = "scheduled"]
  /\ attempt' = 1
  /\ callLog' = Append(callLog, next)
  /\ imageTag' = [imageTag EXCEPT ![next] = ImageTagPassed(next)]
  /\ pc' = next
  /\ result' = result

\* return r: the workflow execution closes.
Return(status, r) ==
  /\ callStatus' = status
  /\ pc' = "done"
  /\ result' = r
  /\ UNCHANGED <<attempt, callLog, imageTag>>

\* The workflow blocks on a channel or selector.
Suspend(status, where) ==
  /\ callStatus' = status
  /\ pc' = where
  /\ UNCHANGED <<attempt, callLog, imageTag, result>>

\* "Handle what happened" after selector.Select, up to the workflow's return.
HandleRace(status, expired, received) ==
  /\ timerExpired' = expired
  /\ validationReceived' = received
  /\ IF ShouldRollback(expired, received)
       THEN Schedule(status, RollbackCall)
       ELSE Return(status, NilResult)

\* ------------------------------------------------------------ the workflow
\* CICDPipelineWorkflow up to the build call.
WorkflowStart ==
  /\ pc = "start"
  /\ Schedule(callStatus, BuildCall)
  /\ UNCHANGED <<request, lastSuccess, testResp, fullImagePath, approvalSignal, approvalWait,
                 timerExpired, validationReceived, sigVars, raceVars>>
  /\ UNCHANGED dispVars

\* The retry policy starts another attempt of the call in flight.
ActivityAttemptFails ==
  /\ pc \in Calls
  /\ RetryAllowed(attempt)
  /\ attempt' = attempt + 1
  /\ UNCHANGED <<request, lastSuccess, pc, callStatus, callLog, imageTag, testResp, fullImagePath,
                 approvalSignal, approvalWait, timerExpired, validationReceived,
                 result, sigVars, raceVars>>
  /\ UNCHANGED dispVars

\* Mutation: a failed build is logged and the pipeline goes on to the tests.
BuildDockerImageReturnsErrorIgnored(err) ==
  /\ CallReturns(BuildCall, err)
  /\ Schedule(Done(BuildCall, err), TestCall)
  /\ UNCHANGED <<request, lastSuccess, testResp, fullImagePath, approvalSignal, approvalWait,
                 timerExpired, validationReceived, sigVars, raceVars>>
  /\ UNCHANGED dispVars

\* Step 1 returns.
BuildDockerImageReturns(err) ==
  /\ CallReturns(BuildCall, err)
  /\ IF err
       THEN Return(Done(BuildCall, err), ErrorfW(BuildFailed, BuildCall))
       ELSE Schedule(Done(BuildCall, err), TestCall)
  /\ UNCHANGED <<request, lastSuccess, testResp, fullImagePath, approvalSignal, approvalWait,
                 timerExpired, validationReceived, sigVars, raceVars>>
  /\ UNCHANGED dispVars

\* Step 2 returns: an error, or a response with Passed and Output.
\* Mutation: a negative test result is returned like a failure of the call.
TestDockerContainerReturnsSemanticWrapped(err, resp) ==
  /\ CallReturns(TestCall, err)
  /\ IF err
       THEN /\ Return(Done(TestCall, err), ErrorfW(TestsFailed, TestCall))
            /\ UNCHANGED testResp
       ELSE /\ testResp' = resp
            /\ IF ~TestsPassed(resp)
                 THEN Return(Done(TestCall, err), ErrorfW(TestsFailed, TestCall))
                 ELSE Schedule(Done(TestCall, err), PushCall)
  /\ UNCHANGED <<request, lastSuccess, fullImagePath, approvalSignal, approvalWait,
                 timerExpired, validationReceived, sigVars, raceVars>>
  /\ UNCHANGED dispVars

TestDockerContainerReturns(err, resp) ==
  /\ CallReturns(TestCall, err)
  /\ IF err
       THEN /\ Return(Done(TestCall, err), ErrorfW(TestsFailed, TestCall))
            /\ UNCHANGED testResp
       ELSE /\ testResp' = resp
            /\ IF ~TestsPassed(resp)
                 THEN Return(Done(TestCall, err), ErrorfS(TestsFailed, <<resp.Output>>))
                 ELSE Schedule(Done(TestCall, err), PushCall)
  /\ UNCHANGED <<request, lastSuccess, fullImagePath, approvalSignal, approvalWait,
                 timerExpired, validationReceived, sigVars, raceVars>>
  /\ UNCHANGED dispVars

\* Step 3 returns; the image path is built and the staging deploy decided.
PushToRegistryReturns(err) ==
  /\ CallReturns(PushCall, err)
  /\ IF err
       THEN /\ Return(Done(PushCall, err), ErrorfW(PushFailed, PushCall))
            /\ UNCHANGED fullImagePath
       ELSE /\ fullImagePath' =
                 ConstructFullImagePath(request.RegistryURL, request.ImageName, request.Tag)
            /\ IF DeploysToStaging(request.Environment)
                 THEN Schedule(Done(PushCall, err), StagingCall)
                 ELSE Return(Done(PushCall, err), NilResult)
  /\ UNCHANGED <<request, lastSuccess, testResp, approvalSignal, approvalWait,
                 timerExpired, validationReceived, sigVars, raceVars>>
  /\ UNCHANGED dispVars

\* Mutation: a staging response with Success = false is treated as a failure.
DeployStagingReturnsChecksSuccess(err, success) ==
  /\ lastSuccess' = (IF err THEN lastSuccess ELSE success)
  /\ CallReturns(StagingCall, err)
  /\ IF err
       THEN Return(Done(StagingCall, err), ErrorfW(StagingFailed, StagingCall))
       ELSE IF ~success
              THEN Return(Done(StagingCall, err), ErrorfS(StagingFailed, <<"not successful">>))
              ELSE IF NeedsProduction(request.Environment)
                     THEN Schedule(Done(StagingCall, err), NotifyCall)
                     ELSE Return(Done(StagingCall, err), NilResult)
  /\ UNCHANGED <<request, testResp, fullImagePath, approvalSignal, approvalWait,
                 timerExpired, validationReceived, sigVars, raceVars>>
  /\ UNCHANGED dispVars

\* Phase 2 returns; production requests enter deployToProduction.
StagingDeployed(err, success) ==
  /\ lastSuccess' = (IF err THEN lastSuccess ELSE success)
  /\ CallReturns(StagingCall, err)
  /\ IF err
       THEN Return(Done(StagingCall, err), ErrorfW(StagingFailed, StagingCall))
       ELSE IF NeedsProduction(request.Environment)
              THEN Schedule(Done(StagingCall, err), NotifyCall)
              ELSE Return(Done(StagingCall, err), NilResult)
  /\ UNCHANGED <<request, testResp, fullImagePath, approvalSignal, approvalWait,
                 timerExpired, validationReceived, sigVars, raceVars>>

DeployStagingReturns(err, success) ==
  /\ StagingDeployed(err, success)
  /\ UNCHANGED dispVars

\* Mutation: a failed approval request is only logged and the wait entered.
SendApprovalRequestReturnsFireAndForget(err) ==
  /\ CallReturns(NotifyCall, err)
  /\ IF approvalChannel # <<>>
       THEN /\ approvalSignal' = Head(approvalChannel)
            /\ approvalChannel' = Tail(approvalChannel)
            /\ approvalWait' = "received"
            /\ Schedule(Done(NotifyCall, err), LogCall)
       ELSE /\ approvalWait' = "waiting"
            /\ Suspend(Done(NotifyCall, err), "AwaitApproval")
            /\ UNCHANGED <<approvalSignal, approvalChannel>>
  /\ UNCHANGED <<request, lastSuccess, testResp, fullImagePath, timerExpired, validationReceived,
                 validationChannel, approvalsSent, validationsSent, raceVars>>
  /\ UNCHANGED dispVars

\* Mutation: the receive does not block; with no signal buffered the zero
\* value is taken as the decision.
SendApprovalRequestReturnsNoWait(err) ==
  /\ CallReturns(NotifyCall, err)
  /\ IF err
       THEN /\ Return(Done(NotifyCall, err), ErrorfW(NotifyFailed, NotifyCall))
            /\ UNCHANGED <<approvalSignal, approvalWait, approvalChannel>>
       ELSE /\ approvalWait' = "received"
            /\ Schedule(Done(NotifyCall, err), LogCall)
            /\ IF approvalChannel # <<>>
                 THEN /\ approvalSignal' = Head(approvalChannel)
                      /\ approvalChannel' = Tail(approvalChannel)
                 ELSE UNCHANGED <<approvalSignal, approvalChannel>>
  /\ UNCHANGED <<request, lastSuccess, testResp, fullImagePath, timerExpired, validationReceived,
                 validationChannel, approvalsSent, validationsSent, raceVars>>
  /\ UNCHANGED dispVars

\* The approval request returns; approvalChannel.Receive takes a buffered
\* signal at once or blocks.
SendApprovalRequestReturns(err) ==
  /\ CallReturns(NotifyCall, err)
  /\ IF err
       THEN /\ Return(Done(NotifyCall, err), ErrorfW(NotifyFailed, NotifyCall))
            /\ UNCHANGED <<approvalSignal, approvalWait, approvalChannel>>
       ELSE IF approvalChannel # <<>>
              THEN /\ approvalSignal' = Head(approvalChannel)
                   /\ approvalChannel' = Tail(approvalChannel)
                   /\ approvalWait' = "received"
                   /\ Schedule(Done(NotifyCall, err), LogCall)
              ELSE /\ approvalWait' = "waiting"
                   /\ Suspend(Done(NotifyCall, err), "AwaitApproval")
                   /\ UNCHANGED <<approvalSignal, approvalChannel>>
  /\ UNCHANGED <<request, lastSuccess, testResp, fullImagePath, timerExpired, validationReceived,
                 validationChannel, approvalsSent, validationsSent, raceVars>>
  /\ UNCHANGED dispVars

\* Mutation: a failed decision log ends the pipeline like any failed call.
LogApprovalDecisionReturnsErrorFatal(err) ==
  /\ CallReturns(LogCall, err)
  /\ IF err
       THEN Return(Done(LogCall, err), ErrorfW("failed to log approval decision", LogCall))
       ELSE IF ~IsApproved(approvalSignal)
              THEN Return(Done(LogCall, err),
                          ErrorfS(Rejected, <<approvalSignal.Approver, approvalSignal.Reason>>))
              ELSE Schedule(Done(LogCall, err), ProductionCall)
  /\ UNCHANGED <<request, lastSuccess, testResp, fullImagePath, approvalSignal, approvalWait,
                 timerExpired, validationReceived, sigVars, raceVars>>
  /\ UNCHANGED dispVars

\* The decision is logged (an error is only logged), then acted upon.
LogApprovalDecisionReturns(err) ==
  /\ CallReturns(LogCall, err)
  /\ IF ~IsApproved(approvalSignal)
       THEN Return(Done(LogCall, err),
                   ErrorfS(Rejected, <<approvalSignal.Approver, approvalSignal.Reason>>))
       ELSE Schedule(Done(LogCall, err), ProductionCall)
  /\ UNCHANGED <<request, lastSuccess, testResp, fullImagePath, approvalSignal, approvalWait,
                 timerExpired, validationReceived, sigVars, raceVars>>
  /\ UNCHANGED dispVars

\* Mutation: the error of the production deploy is ignored.
DeployProductionReturnsErrorIgnored(err, success) ==
  /\ lastSuccess' = (IF err THEN lastSuccess ELSE success)
  /\ CallReturns(ProductionCall, err)
  /\ timer' = "armed"
  /\ IF validationChannel # <<>>
       THEN /\ validation' = Head(validationChannel)
            /\ validationChannel' = Tail(validationChannel)
            /\ readyBranch' = SelectBranch(readyBranch, "validation")
            /\ raceWinner' = "validation"
            /\ HandleRace(Done(ProductionCall, err), FALSE, TRUE)
       ELSE /\ Suspend(Done(ProductionCall, err), "Select")
            /\ UNCHANGED <<timerExpired, validationReceived, validationChannel,
                           readyBranch, validation, raceWinner>>
  /\ UNCHANGED <<request, testResp, fullImagePath, approvalSignal, approvalWait,
                 approvalChannel, approvalsSent, validationsSent,
                 validationInTime, lateLoser>>
  /\ UNCHANGED dispVars

\* Phase 4 returns; the timer is started and the selector run: a buffered
\* validation signal is received at once, otherwise the workflow blocks.
ProductionDeployed(err, success) ==
  /\ lastSuccess' = (IF err THEN lastSuccess ELSE success)
  /\ CallReturns(ProductionCall, err)
  /\ IF err
       THEN /\ Return(Done(ProductionCall, err), ErrorfW(ProductionFailed, ProductionCall))
            /\ UNCHANGED <<timerExpired, validationReceived, validationChannel,
                           timer, readyBranch, validation, raceWinner>>
       ELSE /\ timer' = "armed"
            /\ IF validationChannel # <<>>
                 THEN /\ validation' = Head(validationChannel)
                      /\ validationChannel' = Tail(validationChannel)
                      /\ readyBranch' = SelectBranch(readyBranch, "validation")
                      /\ raceWinner' = "validation"
                      /\ HandleRace(Done(ProductionCall, err), FALSE, TRUE)
                 ELSE /\ Suspend(Done(ProductionCall, err), "Select")
                      /\ UNCHANGED <<timerExpired, validationReceived, validationChannel,
                                     readyBranch, validation, raceWinner>>
  /\ UNCHANGED <<request, testResp, fullImagePath, approvalSignal, approvalWait,
                 approvalChannel, approvalsSent, validationsSent,
                 validationInTime, lateLoser>>

DeployProductionReturns(err, success) ==
  /\ ProductionDeployed(err, success)
  /\ UNCHANGED dispVars

\* Mutation: the timer is not added to the selector.
SelectReturnsTimerNotAdded ==
  /\ pc = "Select"
  /\ readyBranch = "validation"
  /\ HandleRace(callStatus, FALSE, TRUE)
  /\ UNCHANGED <<request, lastSuccess, testResp, fullImagePath, approvalSignal, approvalWait,
                 sigVars, raceVars>>
  /\ UNCHANGED dispVars

\* selector.Select returns: the ready branch's callback runs, then the
\* outcome is handled.
SelectReturns ==
  /\ pc = "Select"
  /\ readyBranch # "none"
  /\ HandleRace(callStatus, readyBranch = "timer", readyBranch = "validation")
  /\ UNCHANGED <<request, lastSuccess, testResp, fullImagePath, approvalSignal, approvalWait,
                 sigVars, raceVars>>
  /\ UNCHANGED dispVars

\* The rollback call returns.
RollbackDeploymentReturns(err, success) ==
  /\ lastSuccess' = (IF err THEN lastSuccess ELSE success)
  /\ CallReturns(RollbackCall, err)
  /\ IF err
       THEN Return(Done(RollbackCall, err), ErrorfW(RollbackFailed, RollbackCall))
       ELSE Return(Done(RollbackCall, err), NilResult)
  /\ UNCHANGED <<request, testResp, fullImagePath, approvalSignal, approvalWait,
                 timerExpired, validationReceived, sigVars, raceVars>>
  /\ UNCHANGED dispVars

\* ---------------------------------------------------------- the environment
\* cmd/starter -action=approve|reject: the flags' defaults, then the signal.
ApprovalSignalOf(action, approver, reason) ==
  [Approved |-> (action = "approve"),
   Approver |-> IF approver = "" THEN "demo-user" ELSE approver,
   Reason |-> IF action = "reject" /\ reason = "" THEN "Deployment rejected" ELSE reason]

\* Mutation: a later approval signal replaces the decision already received.
SendApprovalSignalOverwrites(action, approver, reason) ==
  /\ result.status = "Running"
  /\ approvalsSent < MaxApprovalSignals
  /\ approvalsSent' = approvalsSent + 1
  /\ approvalSignal' = ApprovalSignalOf(action, approver, reason)
  /\ IF pc = "AwaitApproval"
       THEN /\ approvalWait' = "received"
            /\ Schedule(callStatus, LogCall)
            /\ UNCHANGED approvalChannel
       ELSE /\ approvalChannel' =
                 Append(approvalChannel, ApprovalSignalOf(action, approver, reason))
            /\ UNCHANGED <<pc, attempt, callStatus, callLog, imageTag, result,
                           approvalWait>>
  /\ UNCHANGED <<request, lastSuccess, testResp, fullImagePath, timerExpired, validationReceived,
                 validationChannel, validationsSent, raceVars>>
  /\ UNCHANGED dispVars

\* sendApprovalSignal: the signal reaches the running workflow; a workflow
\* blocked in approvalChannel.Receive takes it and logs the decision.
SendApprovalSignal(action, approver, reason) ==
  /\ result.status = "Running"
  /\ approvalsSent < MaxApprovalSignals
  /\ approvalsSent' = approvalsSent + 1
  /\ IF pc = "AwaitApproval"
       THEN /\ approvalSignal' = ApprovalSignalOf(action, approver, reason)
            /\ approvalWait' = "received"
            /\ Schedule(callStatus, LogCall)
            /\ UNCHANGED approvalChannel
       ELSE /\ approvalChannel' =
                 Append(approvalChannel, ApprovalSignalOf(action, approver, reason))
            /\ UNCHANGED <<pc, attempt, callStatus, callLog, imageTag, result,
                           approvalSignal, approvalWait>>
  /\ UNCHANGED <<request, lastSuccess, testResp, fullImagePath, timerExpired, validationReceived,
                 validationChannel, validationsSent, raceVars>>
  /\ UNCHANGED dispVars

\* main of cmd/starter for a running pipeline: approve and reject send the
\* approval signal; any other action, "validate" included, reaches the
\* default case and exits with "Unknown action" before anything is sent.
StarterMain(action, approver, reason) ==
  IF action \in {"approve", "reject"}
    THEN SendApprovalSignal(action, approver, reason)
    ELSE /\ validateInvoked' = (validateInvoked \/ action = "validate")
         /\ validateInWindow' =
              (validateInWindow \/ (action = "validate" /\ pc = "Select" /\ readyBranch = "none"))
         /\ UNCHANGED <<pipelineVars, emptyPolls, idVars, kubeVars>>

\* Mutation: a validation signal sent before the selector waits is dropped.
SendValidationSignalDropsEarly(signal) ==
  /\ result.status = "Running"
  /\ validationsSent < MaxValidationSignals
  /\ validationsSent' = validationsSent + 1
  /\ validationInTime' = (validationInTime \/ timer # "fired")
  /\ lateLoser' = (lateLoser \/ raceWinner = "timer")
  /\ IF pc = "Select"
       THEN /\ readyBranch' = SelectBranch(readyBranch, "validation")
            /\ raceWinner' = IF raceWinner = "none" THEN "validation" ELSE raceWinner
            /\ IF readyBranch' = "validation" /\ readyBranch # "validation"
                 THEN validation' = signal /\ UNCHANGED validationChannel
                 ELSE /\ validationChannel' = Append(validationChannel, signal)
                      /\ UNCHANGED validation
       ELSE UNCHANGED <<validationChannel, readyBranch, validation, raceWinner>>
  /\ UNCHANGED <<wfVars, approvalChannel, approvalsSent, timer>>
  /\ UNCHANGED dispVars

\* A client signals "validation": a selector blocked with no branch ready
\* hands the signal to the validation branch, otherwise it is buffered.
SendValidationSignal(signal) ==
  /\ result.status = "Running"
  /\ validationsSent < MaxValidationSignals
  /\ validationsSent' = validationsSent + 1
  /\ validationInTime' = (validationInTime \/ timer # "fired")
  /\ lateLoser' = (lateLoser \/ raceWinner = "timer")
  /\ IF pc = "Select"
       THEN /\ readyBranch' = SelectBranch(readyBranch, "validation")
            /\ raceWinner' = IF raceWinner = "none" THEN "validation" ELSE raceWinner
            /\ IF readyBranch' = "validation" /\ readyBranch # "validation"
                 THEN validation' = signal /\ UNCHANGED validationChannel
                 ELSE /\ validationChannel' = Append(validationChannel, signal)
                      /\ UNCHANGED validation
       ELSE /\ validationChannel' = Append(validationChannel, signal)
            /\ UNCHANGED <<readyBranch, validation, raceWinner>>
  /\ UNCHANGED <<wfVars, approvalChannel, approvalsSent, timer>>
  /\ UNCHANGED dispVars

\* Mutation: the timer still fires after the workflow closed.
TimerFiresAfterClose ==
  /\ timer = "armed"
  /\ timer' = "fired"
  /\ readyBranch' = IF pc = "Select" THEN SelectBranch(readyBranch, "timer") ELSE readyBranch
  /\ raceWinner' = IF raceWinner = "none" THEN "timer" ELSE raceWinner
  /\ lateLoser' = (lateLoser \/ raceWinner = "validation")
  /\ UNCHANGED <<wfVars, sigVars, validation, validationInTime>>
  /\ UNCHANGED dispVars

\* The 30-second timer fires while the workflow is open.
TimerFires ==
  /\ result.status = "Running"
  /\ timer = "armed"
  /\ timer' = "fired"
  /\ readyBranch' = IF pc = "Select" THEN SelectBranch(readyBranch, "timer") ELSE readyBranch
  /\ raceWinner' = IF raceWinner = "none" THEN "timer" ELSE raceWinner
  /\ lateLoser' = (lateLoser \/ raceWinner = "validation")
  /\ UNCHANGED <<wfVars, sigVars, validation, validationInTime>>
  /\ UNCHANGED dispVars

Next ==
  \/ WorkflowStart
  \/ ActivityAttemptFails
  \/ \E err \in BOOLEAN : BuildDockerImageReturns(err)
  \/ \E err \in BOOLEAN, resp \in TestResponses :
       TestDockerContainerReturns(err, resp)
  \/ \E err \in BOOLEAN : PushToRegistryReturns(err)
  \/ \E err \in BOOLEAN, success \in BOOLEAN : DeployStagingReturns(err, success)
  \/ \E err \in BOOLEAN : SendApprovalRequestReturns(err)
  \/ \E err \in BOOLEAN : LogApprovalDecisionReturns(err)
  \/ \E err \in BOOLEAN, success \in BOOLEAN : DeployProductionReturns(err, success)
  \/ SelectReturns
  \/ \E err \in BOOLEAN, success \in BOOLEAN : RollbackDeploymentReturns(err, success)
  \/ \E flags \in StarterInvocations :
       StarterMain(flags[1], flags[2], flags[3])
  \/ \E signal \in ValidationSignals : SendValidationSignal(signal)
  \/ TimerFires

Spec == Init /\ [][Next]_vars

\* The server fires an armed timer, every call returns its final result after
\* its attempts, and a workflow that can go on is run.
Fairness ==
  /\ WF_vars(WorkflowStart)
  /\ WF_vars(\E err \in BOOLEAN : BuildDockerImageReturns(err))
  /\ WF_vars(\E err \in BOOLEAN, resp \in TestResponses :
               TestDockerContainerReturns(err, resp))
  /\ WF_vars(\E err \in BOOLEAN : PushToRegistryReturns(err))
  /\ WF_vars(\E err \in BOOLEAN, success \in BOOLEAN : DeployStagingReturns(err, success))
  /\ WF_vars(\E err \in BOOLEAN : SendApprovalRequestReturns(err))
  /\ WF_vars(\E err \in BOOLEAN : LogApprovalDecisionReturns(err))
  /\ WF_vars(\E err \in BOOLEAN, success \in BOOLEAN : DeployProductionReturns(err, success))
  /\ WF_vars(SelectReturns)
  /\ WF_vars(\E err \in BOOLEAN, success \in BOOLEAN : RollbackDeploymentReturns(err, success))
  /\ WF_vars(TimerFires)

FairSpec == Spec /\ Fairness

\* ------------------------- the pipeline with the Go activity serving deploys
\* One execution of DeployToKubernetes for the deploy call in flight: a
\* returned error is a failed attempt, retried while the policy allows;
\* otherwise the call returns to the workflow what the execution returned.
DeployToKubernetesExecutes(call, cluster) ==
  LET resp == DeployToKubernetes(cluster) IN
  /\ pc = call
  /\ kubectl' = resp
  /\ IF resp.err /\ RetryAllowed(attempt)
       THEN /\ attempt' = attempt + 1
            /\ UNCHANGED <<request, lastSuccess, pc, callStatus, callLog, imageTag, testResp,
                           fullImagePath, approvalSignal, approvalWait, timerExpired,
                           validationReceived, result, sigVars, raceVars>>
       ELSE IF call = StagingCall
              THEN StagingDeployed(resp.err, resp.Success)
              ELSE ProductionDeployed(resp.err, resp.Success)
  /\ UNCHANGED <<emptyPolls, validateInvoked, validateInWindow, idVars>>

DeployStagingExecutes(cluster) == DeployToKubernetesExecutes(StagingCall, cluster)

DeployProductionExecutes(cluster) == DeployToKubernetesExecutes(ProductionCall, cluster)

KubeNext ==
  \/ WorkflowStart
  \/ ActivityAttemptFails
  \/ \E err \in BOOLEAN : BuildDockerImageReturns(err)
  \/ \E err \in BOOLEAN, resp \in TestResponses :
       TestDockerContainerReturns(err, resp)
  \/ \E err \in BOOLEAN : PushToRegistryReturns(err)
  \/ \E cluster \in Clusters : DeployStagingExecutes(cluster)
  \/ \E err \in BOOLEAN : SendApprovalRequestReturns(err)
  \/ \E err \in BOOLEAN : LogApprovalDecisionReturns(err)
  \/ \E cluster \in Clusters : DeployProductionExecutes(cluster)
  \/ SelectReturns
  \/ \E err \in BOOLEAN, success \in BOOLEAN : RollbackDeploymentReturns(err, success)
  \/ \E flags \in StarterInvocations :
       StarterMain(flags[1], flags[2], flags[3])
  \/ \E signal \in ValidationSignals : SendValidationSignal(signal)
  \/ TimerFires

KubeSpec == Init /\ [][KubeNext]_vars

\* ------------------------------------------- the pipeline as it is deployed
\* The activity type a call is scheduled under.
ActivityType(call) ==
  IF call \in {StagingCall, ProductionCall} THEN "DeployToKubernetes" ELSE call

\* Tasks waiting to be polled: the first workflow task of the started
\* workflow, or the activity task of the call in flight. Activity tasks go to
\* the workflow's task queue, the activity options naming none.
PendingTasks ==
  IF pc = "start"
    THEN {[type |-> "CICDPipelineWorkflow", queue |-> StarterTaskQueue]}
    ELSE {[type |-> ActivityType(call), queue |-> StarterTaskQueue] :
            call \in {c \in Calls : callStatus[c] = "scheduled"}}

\* A worker gets a task that is on the queue it polls and of a type it registers.
Serves(w, task) == WorkerTaskQueue(w) = task.queue /\ task.type \in Registers(w)

\* What processing a polled task does to the pipeline, the workflow task that
\* follows an activity's completion or a fired timer included.
TaskRuns ==
  \/ WorkflowStart
  \/ ActivityAttemptFails
  \/ \E err \in BOOLEAN : BuildDockerImageReturns(err)
  \/ \E err \in BOOLEAN, resp \in TestResponses :
       TestDockerContainerReturns(err, resp)
  \/ \E err \in BOOLEAN : PushToRegistryReturns(err)
  \/ \E err \in BOOLEAN, success \in BOOLEAN : DeployStagingReturns(err, success)
  \/ \E err \in BOOLEAN : SendApprovalRequestReturns(err)
  \/ \E err \in BOOLEAN : LogApprovalDecisionReturns(err)
  \/ \E err \in BOOLEAN, success \in BOOLEAN : DeployProductionReturns(err, success)
  \/ SelectReturns
  \/ \E err \in BOOLEAN, success \in BOOLEAN : RollbackDeploymentReturns(err, success)
  \/ TimerFires

\* One poll of worker w: it runs a pending task it serves, or the poll
\* returns empty.
WorkerPoll(w) ==
  IF \E task \in PendingTasks : Serves(w, task)
    THEN TaskRuns
    ELSE /\ emptyPolls[w] < MaxEmptyPolls
         /\ emptyPolls' = [emptyPolls EXCEPT ![w] = @ + 1]
         /\ UNCHANGED <<pipelineVars, validateInvoked, validateInWindow, idVars, kubeVars>>

SystemNext ==
  \/ \E w \in Workers : WorkerPoll(w)
  \/ \E flags \in StarterInvocations :
       StarterMain(flags[1], flags[2], flags[3])

SystemSpec == Init /\ [][SystemNext]_vars

\* ----------------------------------------------- the identifiers of pipelines
\* The first creation, at any random number.
IdInit ==
  /\ StartedPipeline
  /\ now = 0
  /\ \E random \in Randoms :
       workflowIDs = <<GenerateWorkflowID("pipeline", now, random)>>

\* A second passes.
ClockTick ==
  /\ now < MaxSeconds
  /\ now' = now + 1
  /\ UNCHANGED <<pipelineVars, emptyPolls, validateInvoked, validateInWindow, workflowIDs,
                 kubeVars>>

\* startPipeline of a further creation: its identifier is generated.
startPipeline(random) ==
  /\ Len(workflowIDs) < MaxPipelines
  /\ workflowIDs' = Append(workflowIDs, GenerateWorkflowID("pipeline", now, random))
  /\ UNCHANGED <<pipelineVars, emptyPolls, validateInvoked, validateInWindow, now, kubeVars>>

IdNext ==
  \/ ClockTick
  \/ \E random \in Randoms : startPipeline(random)

IdSpec == IdInit /\ [][IdNext]_vars

\* The creations a signal addressed to a workflow ID reaches: SignalWorkflow
\* names the workflow by its ID alone, the run ID left empty.
SignalReaches(workflowID) ==
  {i \in DOMAIN workflowIDs : workflowIDs[i] = workflowID}

\* ------------------------------------------------------------------- typing
TypeOK ==
  /\ pc \in Calls \cup {"start", "AwaitApproval", "Select", "done"}
  /\ attempt \in 0..MaximumAttempts
  /\ callStatus \in [Calls -> {"none", "scheduled", "ok", "failed"}]
  /\ Len(approvalChannel) <= MaxApprovalSignals
  /\ Len(validationChannel) <= MaxValidationSignals
  /\ timer \in {"none", "armed", "fired"}
  /\ readyBranch \in {"none", "validation", "timer"}
  /\ result.status \in {"Running", "Completed", "Failed"}
  /\ (pc = "done") = (result.status # "Running")

\* ------------------------------------------------------ reading the state
\* getWorkflowStatus: what the status query of cmd/starter shows of a result.
getWorkflowStatus(r) == r.status

Terminal == pc = "done"
Issued(call) == callStatus[call] # "none"
Returned(call) == callStatus[call] \in {"ok", "failed"}
Succeeded(call) == callStatus[call] = "ok"
TimesIssued(call) == Cardinality({i \in DOMAIN callLog : callLog[i] = call})
LastIssued == IF callLog = <<>> THEN "none" ELSE callLog[Len(callLog)]

\* The result a validated production deployment (or a staging pipeline)
\* ends with.
SucceededResult == NilResult

\* The pipeline outcome of the specification's data model, read off the
\* returned value and the calls made.
Outcome ==
  IF result.status = "Running" THEN "Running"
  ELSE IF result.status = "Completed"
    THEN IF Succeeded(RollbackCall) THEN "RolledBack" ELSE "Succeeded"
  ELSE IF result.error[1] = RollbackFailed THEN "RollbackFailed"
  ELSE IF result.error[1] = Rejected THEN "RejectedByApprover"
  ELSE IF result.cause = "" THEN "TestsFailed"
  ELSE "ActivityFailed"

\* ------------------------------------------------------------------ claims

\* C1: for a production request the staging deploy call has completed
\* successfully before the pipeline starts waiting for approval, and the
\* production deploy call is never issued before an approval signal with
\* Approved = TRUE has been received.
C1_StagedThenApprovedBeforeProduction ==
  request.Environment = "production" =>
    /\ (approvalWait # "none" => Succeeded(StagingCall))
    /\ (Issued(ProductionCall) =>
          /\ approvalWait = "received"
          /\ approvalsSent >= 1
          /\ approvalSignal.Approved
          /\ Succeeded(StagingCall))

C1_Witness ==
  /\ request.Environment = "production"
  /\ Issued(ProductionCall)
  /\ approvalSignal.Approved

\* C2: for a staging request the approval wait, the timer / validation race
\* and the rollback call never happen, and the pipeline ends Succeeded iff
\* build, test (passing), publish and the staging deploy all succeeded.
C2_StagingNeverEntersProductionPath ==
  request.Environment = "staging" =>
    /\ approvalWait = "none"
    /\ timer = "none"
    /\ readyBranch = "none"
    /\ ~Issued(NotifyCall) /\ ~Issued(LogCall)
    /\ ~Issued(ProductionCall) /\ ~Issued(RollbackCall)
    /\ (Terminal =>
          ((Outcome = "Succeeded") <=>
             /\ Succeeded(BuildCall)
             /\ Succeeded(TestCall) /\ testResp.Passed
             /\ Succeeded(PushCall)
             /\ Succeeded(StagingCall)))

C2_Witness ==
  /\ request.Environment = "staging"
  /\ Terminal
  /\ Outcome = "Succeeded"
  /\ Succeeded(StagingCall)
  /\ approvalsSent > 0 /\ validationsSent > 0

\* C3: the received decision decides: Approved = TRUE leads to the production
\* deploy call; Approved = FALSE ends the pipeline with the rejection error
\* carrying approver and reason, and then no production deploy call, timer
\* or rollback is ever issued.
C3_DecisionDecides ==
  (approvalWait = "received" /\ Returned(LogCall)) =>
    /\ approvalSignal.Approved => Issued(ProductionCall)
    /\ ~approvalSignal.Approved =>
         /\ Terminal
         /\ result = ErrorfS(Rejected, <<approvalSignal.Approver, approvalSignal.Reason>>)
         /\ Outcome = "RejectedByApprover"
         /\ ~Issued(ProductionCall)
         /\ timer = "none"
         /\ ~Issued(RollbackCall)

C3_Witness ==
  /\ approvalWait = "received"
  /\ ~approvalSignal.Approved
  /\ approvalSignal.Approver = "qa"
  /\ Terminal

\* C4: after a successful production deploy, a validation signal delivered
\* before the timer fires means the rollback call is never issued and the
\* outcome is never RolledBack; with no validation signal before the timer
\* fires the pipeline ends RolledBack or RollbackFailed.
C4_RaceDeterminism ==
  Succeeded(ProductionCall) =>
    /\ validationInTime => (~Issued(RollbackCall) /\ Outcome # "RolledBack")
    /\ (~validationInTime /\ Terminal) => Outcome \in {"RolledBack", "RollbackFailed"}

C4_Witness ==
  /\ Succeeded(ProductionCall)
  /\ Terminal
  /\ ~validationInTime
  /\ validationsSent > 0
  /\ Outcome = "RolledBack"

\* C5: the race is resolved once: never both of timerExpired and
\* validationReceived, exactly one of them once the race is over, the one of
\* the event that happened first, and the other event happening later does
\* not change what the pipeline does.
C5_RaceResolvedOnce ==
  /\ ~(timerExpired /\ validationReceived)
  /\ timerExpired => raceWinner = "timer"
  /\ validationReceived => raceWinner = "validation"
  /\ (Terminal /\ raceWinner # "none") => (timerExpired # validationReceived)
  /\ (Terminal /\ raceWinner = "validation") =>
       (Outcome = "Succeeded" /\ ~Issued(RollbackCall))
  /\ (Terminal /\ raceWinner = "timer") =>
       (Outcome \in {"RolledBack", "RollbackFailed"} /\ Returned(RollbackCall))

C5_Witness ==
  /\ Terminal
  /\ lateLoser
  /\ raceWinner = "validation"
  /\ timer = "fired"

\* C6: the rollback call is issued at most once, and only when the timer won
\* the race of an approved production pipeline whose production deploy
\* succeeded.
C6_RollbackOnlyOnTimeout ==
  /\ TimesIssued(RollbackCall) <= 1
  /\ Issued(RollbackCall) =>
       /\ timerExpired /\ ~validationReceived
       /\ raceWinner = "timer"
       /\ request.Environment = "production"
       /\ approvalSignal.Approved
       /\ Succeeded(ProductionCall)

C6_Witness ==
  /\ Returned(RollbackCall)
  /\ Terminal
  /\ lateLoser

\* C7: when the timer wins and the rollback call succeeds, the pipeline's
\* terminal result is told apart by the status query from the result of a
\* validated production deployment.
C7_RolledBackIsDistinguishable ==
  (Terminal /\ timerExpired /\ Succeeded(RollbackCall)) =>
    getWorkflowStatus(result) # getWorkflowStatus(SucceededResult)

\* C8: when the rollback call fails after its retries the pipeline ends with
\* the rollback-failed error, and no other failure ends with that error.
C8_RollbackFailedIsDistinct ==
  /\ (Terminal /\ callStatus[RollbackCall] = "failed") =>
       (result = ErrorfW(RollbackFailed, RollbackCall) /\ timerExpired)
  /\ result.status = "Failed" =>
       ((result.error[1] = RollbackFailed) <=> (callStatus[RollbackCall] = "failed"))

C8_Witness ==
  /\ Terminal
  /\ callStatus[RollbackCall] = "failed"
  /\ Outcome = "RollbackFailed"

\* C9: a test response with Passed = FALSE and no error ends the pipeline
\* with the tests-failed error carrying the test output; the test call is
\* not issued again and no later call is issued.
C9_NegativeTestResultIsTerminal ==
  (Succeeded(TestCall) /\ ~testResp.Passed) =>
    /\ Terminal
    /\ result = ErrorfS(TestsFailed, <<testResp.Output>>)
    /\ callLog = <<BuildCall, TestCall>>

C9_Witness ==
  /\ Succeeded(TestCall)
  /\ ~testResp.Passed
  /\ testResp.Output = "FAIL"
  /\ attempt = 1

\* C10 as stated: with N = 5, every call that fails N times ends the
\* pipeline with the activity failure of its phase; a call that succeeds on
\* attempt N counts as succeeded; a succeeded call is not attempted again.
C10_Original ==
  \A call \in Calls :
    /\ callStatus[call] = "failed" =>
         (Terminal /\ result.status = "Failed" /\ result.cause = call)
    /\ (callStatus[call] = "failed" /\ LastIssued = call) => attempt = 5
    /\ (callStatus[call] = "ok" /\ LastIssued = call /\ attempt = 5) =>
         result.cause # call
    /\ callStatus[call] = "ok" => (pc # call /\ TimesIssued(call) = 1)

\* C10 (amended): as above for every call but the decision-logging call; a
\* LogApprovalDecision call that fails N times is only logged and the
\* pipeline goes on to act on the decision.
C10_RetryBound ==
  /\ \A call \in Calls :
       /\ (callStatus[call] = "failed" /\ call # LogCall) =>
            (Terminal /\ result.status = "Failed" /\ result.cause = call)
       /\ (callStatus[call] = "failed" /\ LastIssued = call) => attempt = 5
       /\ (callStatus[call] = "ok" /\ LastIssued = call /\ attempt = 5) =>
            result.cause # call
       /\ callStatus[call] = "ok" => (pc # call /\ TimesIssued(call) = 1)
  /\ callStatus[LogCall] = "failed" =>
       /\ result.cause # LogCall
       /\ approvalSignal.Approved => Issued(ProductionCall)
       /\ ~approvalSignal.Approved => Outcome = "RejectedByApprover"

C10_Witness ==
  /\ LastIssued = StagingCall
  /\ callStatus[StagingCall] = "ok"
  /\ attempt = 5
  /\ Outcome = "Succeeded"

\* The calls of a pipeline in the order of its phases: build, test, publish,
\* staging deploy, approval (notification, decision log), production deploy,
\* and the rollback of the validation race.
PhaseOrder ==
  <<BuildCall, TestCall, PushCall, StagingCall, NotifyCall, LogCall,
    ProductionCall, RollbackCall>>

InFlight == {call \in Calls : callStatus[call] = "scheduled"}

\* C11 as stated: the calls are issued in phase order, each only after the
\* call before it succeeded, the waits only after their phase's call
\* succeeded, never two at a time, and any failure ends the pipeline with
\* nothing issued after it.
C11_Original ==
  /\ Len(callLog) <= Len(PhaseOrder)
  /\ callLog = SubSeq(PhaseOrder, 1, Len(callLog))
  /\ \A i \in 2..Len(callLog) : callStatus[callLog[i - 1]] = "ok"
  /\ approvalWait # "none" => Succeeded(NotifyCall)
  /\ Issued(LogCall) => approvalWait = "received"
  /\ timer # "none" => Succeeded(ProductionCall)
  /\ Cardinality(InFlight) <= 1
  /\ \A call \in InFlight : pc = call
  /\ \A call \in Calls :
       callStatus[call] = "failed" => (Terminal /\ LastIssued = call)
  /\ (Succeeded(TestCall) /\ ~testResp.Passed) => (Terminal /\ LastIssued = TestCall)

\* C11 (amended): as above, but the production deploy is issued after the
\* decision-logging call has returned, failed or not; every other failure
\* ends the pipeline.
C11_PhaseOrder ==
  /\ Len(callLog) <= Len(PhaseOrder)
  /\ callLog = SubSeq(PhaseOrder, 1, Len(callLog))
  /\ \A i \in 2..Len(callLog) :
       \/ callStatus[callLog[i - 1]] = "ok"
       \/ callLog[i - 1] = LogCall /\ callStatus[LogCall] = "failed"
  /\ approvalWait # "none" => Succeeded(NotifyCall)
  /\ Issued(LogCall) => approvalWait = "received"
  /\ Issued(ProductionCall) => (Returned(LogCall) /\ approvalSignal.Approved)
  /\ timer # "none" => Succeeded(ProductionCall)
  /\ Cardinality(InFlight) <= 1
  /\ \A call \in InFlight : pc = call
  /\ \A call \in Calls \ {LogCall} :
       callStatus[call] = "failed" => (Terminal /\ LastIssued = call)
  /\ (Succeeded(TestCall) /\ ~testResp.Passed) => (Terminal /\ LastIssued = TestCall)

C11_Witness ==
  /\ callLog = PhaseOrder
  /\ callStatus[LogCall] = "failed"
  /\ Terminal

C13_WaitingState ==
  /\ pc = "AwaitApproval" =>
       /\ result = Running
       /\ approvalWait = "waiting"
       /\ ~Issued(LogCall) /\ ~Issued(ProductionCall) /\ ~Issued(RollbackCall)
       /\ timer = "none"
  /\ Issued(LogCall) => (approvalsSent >= 1 /\ approvalWait = "received")

C13_LeavesOnlyBySignal ==
  (pc = "AwaitApproval" /\ pc' # "AwaitApproval") =>
    /\ approvalsSent' = approvalsSent + 1
    /\ approvalWait' = "received"
    /\ pc' = LogCall

C13_NoTimeout == [](C13_WaitingState) /\ [][C13_LeavesOnlyBySignal]_vars

C13_Witness ==
  /\ pc = "AwaitApproval"
  /\ validationsSent > 0
  /\ approvalsSent = 0

\* What a pipeline's outcome and its sequence of external calls are read
\* from and decided by.
Observable ==
  <<pc, attempt, callStatus, callLog, result, approvalSignal, approvalWait,
    timer, readyBranch, validation, timerExpired, validationReceived>>

C14_ApprovalGateResolved == approvalWait = "received"
C14_ValidationRaceResolved == readyBranch # "none" \/ validationReceived \/ timerExpired

\* C14: a further approval signal delivered after the approval gate resolved,
\* or a further validation signal delivered after the validation race
\* resolved, is only buffered: it changes nothing the outcome or the calls
\* depend on, and no later step takes it out of its channel.
C14_LateDeliveryChangesNothing ==
  /\ (C14_ApprovalGateResolved /\ approvalsSent' # approvalsSent) =>
       /\ UNCHANGED Observable
       /\ approvalChannel' = Append(approvalChannel, approvalChannel'[Len(approvalChannel')])
  /\ (C14_ValidationRaceResolved /\ validationsSent' # validationsSent) =>
       /\ UNCHANGED Observable
       /\ validationChannel' =
            Append(validationChannel, validationChannel'[Len(validationChannel')])
  /\ (C14_ApprovalGateResolved /\ approvalsSent' = approvalsSent) =>
       UNCHANGED <<approvalChannel, approvalSignal>>
  /\ (C14_ValidationRaceResolved /\ validationsSent' = validationsSent) =>
       UNCHANGED <<validationChannel, validation>>

C14_Idempotence == [][C14_LateDeliveryChangesNothing]_vars

\* Both signals were delivered twice, the second copy equal to the first.
C14_Witness ==
  /\ Terminal
  /\ approvalsSent = 2 /\ approvalChannel = <<approvalSignal>>
  /\ validationsSent = 2 /\ validationReceived /\ validationChannel = <<validation>>
  /\ Outcome = "Succeeded"

\* The approval gate, the validation race or the rollback trigger has begun.
ProductionPathEntered ==
  \/ Issued(NotifyCall) \/ approvalWait # "none"
  \/ Issued(LogCall) \/ Issued(ProductionCall)
  \/ timer # "none" \/ readyBranch # "none"
  \/ Issued(RollbackCall)

\* C15: the production path (approval gate, validation race, rollback
\* trigger) is entered if and only if the request's environment is
\* "production" and the staging deploy call succeeded.
C15_ProductionPathIff ==
  ProductionPathEntered <=>
    (request.Environment = "production" /\ Succeeded(StagingCall))

C15_Witness ==
  /\ request.Environment = "production"
  /\ Succeeded(StagingCall)
  /\ Issued(RollbackCall)
  /\ Terminal

\* C16: a pipeline is terminal exactly when its result is no longer Running;
\* the result is set once and never changed; in a terminal state no call is
\* in flight and no step changes anything: no call is issued, no signal
\* consumed or accepted, no timer started or fired.
C16_TerminalState ==
  /\ Terminal <=> result.status # "Running"
  /\ Terminal => InFlight = {}

C16_NoStepAfterTerminal ==
  /\ Terminal => UNCHANGED pipelineVars
  /\ result # Running => result' = result
  /\ result' # result => (pc # "done" /\ pc' = "done")

C16_TerminalOnce == [](C16_TerminalState) /\ [][C16_NoStepAfterTerminal]_vars

\* Terminal with the timer still armed and both channels holding signals.
C16_Witness ==
  /\ Terminal
  /\ timer = "armed"
  /\ approvalChannel # <<>>
  /\ validationChannel # <<>>

\* C19: whatever the Validated field of the validation signal the validation
\* branch received, the signal has won the race, the timer branch has not
\* run, no rollback call is issued and the pipeline ends with a nil error.
C19_ValidatedFieldIgnored ==
  \A validated \in BOOLEAN :
    (readyBranch = "validation" /\ validation.Validated = validated) =>
      /\ raceWinner = "validation"
      /\ pc \in {"Select", "done"}
      /\ ~Issued(RollbackCall)
      /\ ~timerExpired
      /\ Terminal => (validationReceived /\ result = NilResult /\ Outcome = "Succeeded")

\* A signal saying "not validated" ended the race and the pipeline succeeded.
C19_Witness ==
  /\ Terminal
  /\ validationReceived
  /\ validation \in ValidationSignals
  /\ ~validation.Validated
  /\ Outcome = "Succeeded"

\* C20: a pipeline ended by the test step carries either the error that
\* wraps the failed call, or the error made of the test output that wraps
\* nothing, according to which happened; the two errors are never equal.
C20_TestFailuresAreDistinct ==
  /\ (Terminal /\ callStatus[TestCall] = "failed") =>
       (result = ErrorfW(TestsFailed, TestCall) /\ result.cause = TestCall)
  /\ (Terminal /\ LastIssued = TestCall /\ Succeeded(TestCall)) =>
       /\ ~testResp.Passed
       /\ result = ErrorfS(TestsFailed, <<testResp.Output>>)
       /\ result.cause = ""
  /\ \A output \in TestOutputs :
       ErrorfW(TestsFailed, TestCall) # ErrorfS(TestsFailed, <<output>>)

C20_Witness ==
  /\ Terminal
  /\ callStatus[TestCall] = "failed"
  /\ attempt = MaximumAttempts
  /\ result.cause = TestCall

\* C17 as stated: every worker polls the task queue the starter submits
\* to, every pending task is on a queue polled by a worker that registers
\* its type, and a worker's poll returns empty only when no task of a type
\* it registers is pending.
C17_Original ==
  /\ \A w \in Workers : WorkerTaskQueue(w) = StarterTaskQueue
  /\ \A task \in PendingTasks : \E w \in Workers : Serves(w, task)
  /\ \A w \in Workers :
       emptyPolls[w] > 0 => ~(\E task \in PendingTasks : task.type \in Registers(w))

\* C18 as stated: a validate invocation of the starter delivers a
\* "validation" signal, and one made in the validation window lets the
\* pipeline finish without a rollback.
C18_Original ==
  /\ validateInvoked => validationsSent > 0
  /\ validateInWindow => ~Issued(RollbackCall)

\* C21: after a successful publish the artifact reference is
\* registry/image:tag, or image:tag for an empty registry, equal to what
\* FormatImageTag gives for the request's fields, and the staging deploy,
\* the approval notification and the production deploy are each issued with
\* that reference.
C21_OneArtifactReference ==
  /\ Succeeded(PushCall) =>
       /\ fullImagePath =
            FormatImageTag(request.RegistryURL, request.ImageName, request.Tag)
       /\ fullImagePath =
            IF request.RegistryURL = ""
              THEN <<request.ImageName, ":", request.Tag>>
              ELSE <<request.RegistryURL, "/", request.ImageName, ":", request.Tag>>
  /\ \A call \in {StagingCall, NotifyCall, ProductionCall} :
       Issued(call) => (Succeeded(PushCall) /\ imageTag[call] = fullImagePath)

C21_Witness ==
  /\ Issued(ProductionCall)
  /\ request.RegistryURL # ""
  /\ imageTag[StagingCall] = imageTag[ProductionCall]
  /\ imageTag[NotifyCall] = <<"registry.local", "/", "demo-app", ":", "v1.0.0">>

\* C22: the staging deploy and the production deploy are each issued at
\* most once, the production one only after the staging one succeeded; a
\* failed staging deploy ends the pipeline before any approval notification,
\* approval wait or production deploy, and a failed production deploy ends
\* it before any timer or rollback.
C22_DeploysAtMostOncePerTarget ==
  /\ TimesIssued(StagingCall) <= 1
  /\ TimesIssued(ProductionCall) <= 1
  /\ Issued(ProductionCall) =>
       /\ Succeeded(StagingCall)
       /\ \E i, j \in DOMAIN callLog :
            i < j /\ callLog[i] = StagingCall /\ callLog[j] = ProductionCall
  /\ callStatus[StagingCall] = "failed" =>
       /\ Terminal
       /\ result = ErrorfW(StagingFailed, StagingCall)
       /\ ~Issued(NotifyCall) /\ approvalWait = "none" /\ ~Issued(ProductionCall)
  /\ callStatus[ProductionCall] = "failed" =>
       /\ Terminal
       /\ result = ErrorfW(ProductionFailed, ProductionCall)
       /\ timer = "none" /\ readyBranch = "none" /\ ~Issued(RollbackCall)

C22_Witness ==
  /\ callStatus[ProductionCall] = "failed"
  /\ Terminal
  /\ validationChannel # <<>>
  /\ TimesIssued(StagingCall) = 1 /\ TimesIssued(ProductionCall) = 1

\* C23 as stated: any two pipeline creations, also two within one second,
\* get different workflow IDs, and a signal addressed to the ID of one
\* creation reaches that creation only.
C23_Original ==
  /\ \A i, j \in DOMAIN workflowIDs : i # j => workflowIDs[i] # workflowIDs[j]
  /\ \A i \in DOMAIN workflowIDs : SignalReaches(workflowIDs[i]) = {i}

\* C24: a request whose environment is neither "staging" nor "production"
\* never gets a deploy call, an approval notification or wait, a timer or a
\* rollback; once build, test and publish succeeded it ends with the nil
\* result of a completed staging pipeline, and if it fails it fails with the
\* build, test or publish error, never because of its environment.
C24_UnrecognizedEnvironmentSkipsDeploy ==
  request.Environment \notin {"staging", "production"} =>
    /\ ~Issued(StagingCall) /\ ~Issued(ProductionCall)
    /\ ~Issued(NotifyCall) /\ ~Issued(LogCall) /\ ~Issued(RollbackCall)
    /\ approvalWait = "none" /\ timer = "none" /\ readyBranch = "none"
    /\ Succeeded(PushCall) =>
         (Terminal /\ result = NilResult /\ Outcome = "Succeeded")
    /\ result.status = "Failed" =>
         /\ result.error[1] \in {BuildFailed, TestsFailed, PushFailed}
         /\ ~Succeeded(PushCall)
    /\ pc = "start" => result = Running

C24_Witness ==
  /\ request.Environment \in {"prod", "stage", ""}
  /\ Succeeded(PushCall)
  /\ callLog = <<BuildCall, TestCall, PushCall>>
  /\ Terminal
  /\ result = NilResult

\* C25: no delivered signal is lost: each is in its channel or was taken by
\* its gate.
C25_NoSignalLost ==
  /\ approvalsSent =
       Len(approvalChannel) + (IF approvalWait = "received" THEN 1 ELSE 0)
  /\ validationsSent =
       Len(validationChannel) + (IF readyBranch = "validation" THEN 1 ELSE 0)

\* C25: when the approval request has returned, a buffered approval signal
\* is taken as the decision at once; a validation signal delivered before
\* the race is only appended to its channel and releases nothing; when the
\* production deploy has returned, a buffered validation signal wins the
\* race at once and the pipeline ends without rollback.
C25_TakenWhenGateBegins ==
  /\ (pc = NotifyCall /\ callStatus'[NotifyCall] = "ok" /\ approvalChannel # <<>>) =>
       /\ approvalSignal' = Head(approvalChannel)
       /\ approvalChannel' = Tail(approvalChannel)
       /\ approvalWait' = "received"
       /\ pc' = LogCall
  /\ (validationsSent' # validationsSent /\ timer = "none") =>
       /\ UNCHANGED <<wfVars, approvalChannel, timer, readyBranch>>
       /\ Len(validationChannel') = Len(validationChannel) + 1
       /\ SubSeq(validationChannel', 1, Len(validationChannel)) = validationChannel
  /\ (pc = ProductionCall /\ callStatus'[ProductionCall] = "ok"
        /\ validationChannel # <<>>) =>
       /\ validation' = Head(validationChannel)
       /\ validationChannel' = Tail(validationChannel)
       /\ validationReceived' /\ ~timerExpired'
       /\ callStatus'[RollbackCall] = "none"
       /\ pc' = "done" /\ result' = NilResult

C25_SignalsRetained == [](C25_NoSignalLost) /\ [][C25_TakenWhenGateBegins]_vars

\* A validation signal delivered before the race began is still held while
\* the approved pipeline's production deploy runs.
C25_Witness ==
  /\ pc = ProductionCall
  /\ approvalWait = "received" /\ approvalSignal.Approved
  /\ validationsSent = 1
  /\ Len(validationChannel) = 1
  /\ timer = "none"

\* The step in which a waiting selector returns and the race is handled.
RaceResolves == pc = "Select" /\ pc' # "Select"

\* C26 as stated: when the race is resolved with the timer fired and a
\* validation signal available, the validation branch is taken and no
\* rollback is issued.
C26_ValidationTakenWhenBothReady ==
  (RaceResolves /\ timer = "fired"
     /\ (validationChannel # <<>> \/ readyBranch = "validation")) =>
    /\ validationReceived' /\ ~timerExpired'
    /\ callStatus'[RollbackCall] = "none"

C26_Original == [][C26_ValidationTakenWhenBothReady]_vars

\* C26 (amended): a waiting selector takes the branch of the event that came
\* first; a validation signal that arrived after the timer fired stays in
\* its channel.
C26_BranchOfFirstEvent ==
  /\ (pc = "Select" /\ readyBranch # "none") => readyBranch = raceWinner
  /\ (pc = "Select" /\ readyBranch = "none") => (timer = "armed" /\ validationChannel = <<>>)
  /\ timerExpired => (raceWinner = "timer" /\ ~validationReceived /\ Issued(RollbackCall))
  /\ validationReceived => (raceWinner = "validation" /\ ~timerExpired /\ ~Issued(RollbackCall))

C26_ResolvedByFirstEvent ==
  RaceResolves =>
    IF readyBranch = "validation"
      THEN /\ validationReceived' /\ ~timerExpired'
           /\ callStatus'[RollbackCall] = "none"
           /\ pc' = "done" /\ result' = NilResult
      ELSE /\ readyBranch = "timer" /\ timer = "fired"
           /\ timerExpired' /\ ~validationReceived'
           /\ callStatus'[RollbackCall] = "scheduled"
           /\ validationChannel' = validationChannel

C26_FirstEventWins == [](C26_BranchOfFirstEvent) /\ [][C26_ResolvedByFirstEvent]_vars

\* The timer has fired, a validation signal has arrived after it, and the
\* selector has not returned yet.
C26_Witness ==
  /\ pc = "Select"
  /\ timer = "fired"
  /\ readyBranch = "timer"
  /\ validationChannel # <<>>

\* C27: the decision-logging call is issued once, in the step in which the
\* approval signal is received, whether it approves or rejects; nothing acts
\* on the decision before the call has returned; and whether the call
\* succeeded or failed, an approval leads to the production deploy and a
\* rejection to the rejection error.
C27_DecisionLoggedOnceOutcomeUnchanged ==
  /\ TimesIssued(LogCall) <= 1
  /\ Issued(LogCall) <=> approvalWait = "received"
  /\ pc = LogCall =>
       (result = Running /\ ~Issued(ProductionCall) /\ callStatus[LogCall] = "scheduled")
  /\ Issued(ProductionCall) => (Returned(LogCall) /\ approvalSignal.Approved)
  /\ (result.status = "Failed" /\ result.error[1] = Rejected) =>
       (Returned(LogCall) /\ ~approvalSignal.Approved)
  /\ \A status \in {"ok", "failed"} :
       callStatus[LogCall] = status =>
         IF approvalSignal.Approved
           THEN Issued(ProductionCall)
           ELSE /\ Terminal
                /\ result =
                     ErrorfS(Rejected, <<approvalSignal.Approver, approvalSignal.Reason>>)
                /\ ~Issued(ProductionCall)

C27_Witness ==
  /\ callStatus[LogCall] = "failed"
  /\ ~approvalSignal.Approved
  /\ Terminal
  /\ Outcome = "RejectedByApprover"

\* C28: what follows a deploy or rollback call that returned no error is
\* the same for a response with Success = TRUE and one with Success = FALSE:
\* after the staging deploy the approval request (or the nil result of a
\* staging request), after the production deploy the timer, after the
\* rollback the nil result.
C28_AfterCallWithoutError ==
  \A success \in BOOLEAN :
    lastSuccess' = success =>
      /\ (pc = StagingCall /\ callStatus'[StagingCall] = "ok") =>
           IF request.Environment = "production"
             THEN pc' = NotifyCall /\ callStatus'[NotifyCall] = "scheduled"
             ELSE pc' = "done" /\ result' = NilResult
      /\ (pc = ProductionCall /\ callStatus'[ProductionCall] = "ok") =>
           (timer' = "armed" /\ result'.status # "Failed")
      /\ (pc = RollbackCall /\ callStatus'[RollbackCall] = "ok") =>
           (pc' = "done" /\ result' = NilResult)

\* C28: a pipeline never fails on a deploy or rollback call that returned
\* no error, whatever the Success field of its response.
C28_NoFailureWithoutError ==
  \A call \in {StagingCall, ProductionCall, RollbackCall} :
    (Succeeded(call) /\ LastIssued = call) => result.status # "Failed"

C28_SuccessFlagIgnored ==
  [](C28_NoFailureWithoutError) /\ [][C28_AfterCallWithoutError]_vars

\* The rollback response said Success = FALSE and the rollback counts as done.
C28_Witness ==
  /\ Terminal
  /\ Succeeded(RollbackCall)
  /\ lastSuccess = FALSE
  /\ result = NilResult

\* C29: a pipeline whose validation timer was started eventually ends,
\* with or without a validation signal, and a pipeline that is not waiting
\* for approval eventually ends or comes to wait for approval.
C29_RaceTerminates ==
  /\ (timer # "none") ~> Terminal
  /\ (pc # "AwaitApproval") ~> (Terminal \/ pc = "AwaitApproval")

\* The timer branch was taken with no validation signal ever sent and the
\* pipeline has ended.
C29_Witness ==
  /\ Terminal
  /\ timerExpired
  /\ validationsSent = 0
  /\ Returned(RollbackCall)

\* ---------------------------------------------------------------- claim C30
\* What the latest execution of DeployToKubernetes ran.
Ran(cmd) == \E i \in 1..Len(kubectl.commands) : kubectl.commands[i][1] = cmd
CommandOutcome(cmd) ==
  LET i == CHOOSE j \in 1..Len(kubectl.commands) : kubectl.commands[j][1] = cmd
  IN  kubectl.commands[i][2]
RolloutFailed == Ran("rollout status") /\ CommandOutcome("rollout status") # "ok"

\* C30 as stated: whenever the rollout-status check of an execution failed,
\* the execution returned a response with Success = true and no error.
C30_Original == RolloutFailed => (kubectl.Success /\ ~kubectl.err)

\* The update step: a not-found failure of kubectl set image makes the
\* activity create the deployment, any other failure is returned as an error
\* and nothing more is run.
C30_UpdateStep ==
  Ran("set image") =>
    /\ Ran("apply deployment") <=> CommandOutcome("set image") = "not found"
    /\ CommandOutcome("set image") = "error" =>
         kubectl.err /\ Len(kubectl.commands) = 1

\* The rollout step: its failure is not returned; after it the service is
\* ensured, and the execution returns an error exactly when that fails and
\* Success = true otherwise.
C30_RolloutOnlyLogged ==
  RolloutFailed =>
    /\ Ran("get service")
    /\ kubectl.err <=> (Ran("apply service") /\ CommandOutcome("apply service") # "ok")
    /\ ~kubectl.err => kubectl.Success

\* The pipeline goes on after an execution whose rollout failed and that
\* returned no error: from the staging deploy of a production request to the
\* approval request, from the production deploy to the validation timer.
C30_PipelineProceeds ==
  (RolloutFailed' /\ ~kubectl'.err /\ kubectl' # kubectl) =>
    /\ (pc = StagingCall /\ NeedsProduction(request.Environment)) =>
         (pc' = NotifyCall /\ callStatus'[StagingCall] = "ok")
    /\ pc = ProductionCall =>
         (timer' = "armed" /\ callStatus'[ProductionCall] = "ok")

\* C30: the Go DeployToKubernetes activity creates the deployment when the
\* image update fails with not-found and returns any other update failure as
\* an error; a failed or timed-out rollout-status check is only logged and
\* does not change what the activity returns, which is Success = true unless
\* ensuring the service then fails, so the pipeline proceeds to the approval
\* gate (or to the validation timer) after a deployment whose rollout failed.
C30_RolloutFailureNotReturned ==
  /\ [](C30_UpdateStep /\ C30_RolloutOnlyLogged)
  /\ [][C30_PipelineProceeds]_vars

\* A production deployment whose rollout failed is waiting for its validation,
\* the deployment having been created because the update found none.
C30_Witness ==
  /\ RolloutFailed
  /\ Ran("apply deployment")
  /\ kubectl.Success
  /\ callStatus[ProductionCall] = "ok"
  /\ pc = "Select"

====
